---- MODULE Spec2Model ----
(***************************************************************************)
(* Model of include/resource_tools/embedded_resource.h: the error          *)
(* taxonomy (ResourceError, to_string), the struct-based safe accessor     *)
(* (getResourceSafe, getResourceSizeSafe), the std::expected accessor       *)
(* (getResourceExpected), the legacy accessors (getResourceSize,           *)
(* getResourceData) and the diagnostic hook (g_diagnostic_callback,        *)
(* setDiagnosticCallback, detail::diagnostic_log).                         *)
(*                                                                         *)
(* Addresses are unsigned integers of AddrBits bits, nullptr is address 0. *)
(* Pointers are only compared and subtracted, never dereferenced, so the   *)
(* memory behind them is not part of the state.                            *)
(*                                                                         *)
(* Each thread is a caller.  getResourceSafe (lines 94..107) and           *)
(* detail::diagnostic_log (lines 225..226) are executed statement by       *)
(* statement so that calls of different threads interleave; the other      *)
(* functions are single steps.  Spec has the callers of the safe accessors *)
(* and of to_string, SpecDiag the callers of the diagnostic hook, of the   *)
(* legacy accessors and of the safe accessors taken as single steps.       *)
(***************************************************************************)
EXTENDS Integers, FiniteSets, Sequences, TLC

\* ---------------------------------------------------------------- bounds
\* Width of an address (and of size_t / ptrdiff_t) in bits; stands for 64.
AddrBits == 24
\* Width of uint32_t in bits; stands for 32, narrower than an address.
Uint32Bits == 12
\* Number of calling threads.
NumThreads == 2
\* Largest raw value of the uint32_t underlying ResourceError that is tried.
MaxErrValue == 6

AddrSpace == 2 ^ AddrBits
\* Length of the large test resource, 5 * 1024 * 1024.
FiveMiB == 5242880
\* The addresses callers pass: nullptr, the lowest non-null address, the
\* address 5 MiB above it, and the top of the address space (its distance to
\* the lowest address is beyond PTRDIFF_MAX).
Addrs == {0, 1, 1 + FiveMiB, AddrSpace - 1}
Threads == 1 .. NumThreads
ErrValues == 0 .. MaxErrValue

\* ------------------------------------------------- enum class ResourceError
Success == 0
NullPointer == 1
InvalidSize == 2
IntegerOverflow == 3
NotFound == 4

NamedKinds == {Success, NullPointer, InvalidSize, IntegerOverflow, NotFound}

\* nullptr
NULL == 0

\* ------------------------------------------------------------- to_string
to_string_merged(err) ==
    CASE err = Success         -> "Success"
      [] err = NullPointer     -> "Null pointer encountered"
      [] err = InvalidSize     -> "Invalid resource size (end < start)"
      [] err = IntegerOverflow -> "Resource size exceeds uint32_t limit"
      [] err = NotFound        -> "Resource size exceeds uint32_t limit"
      [] OTHER                 -> "Unknown error"

to_string_no_default(err) ==
    CASE err = Success         -> "Success"
      [] err = NullPointer     -> "Null pointer encountered"
      [] err = InvalidSize     -> "Invalid resource size (end < start)"
      [] err = IntegerOverflow -> "Resource size exceeds uint32_t limit"
      [] err = NotFound        -> "Resource not found"
      [] OTHER                 -> "Resource not found"

to_string(err) ==
    CASE err = Success         -> "Success"
      [] err = NullPointer     -> "Null pointer encountered"
      [] err = InvalidSize     -> "Invalid resource size (end < start)"
      [] err = IntegerOverflow -> "Resource size exceeds uint32_t limit"
      [] err = NotFound        -> "Resource not found"
      [] OTHER                 -> "Unknown error"

\* ------------------------------------------------------ pointer arithmetic
\* end - start on const uint8_t*: a ptrdiff_t, i.e. the machine subtraction
\* read as a signed AddrBits-bit integer.
PtrDiff(e, s) ==
    LET d == (e - s) % AddrSpace
    IN  IF d >= AddrSpace \div 2 THEN d - AddrSpace ELSE d

\* static_cast<size_t>(x)
ToSizeT(x) == x % AddrSpace

\* --------------------------------------------------------- ResourceResult
\* struct ResourceResult {data, size, error}
ResourceResult(d, sz, e) == [data |-> d, size |-> sz, error |-> e]

\* default member initializers: {nullptr, 0, Success}
DefaultResult == ResourceResult(NULL, 0, Success)

OperatorBool_data(r) == r.data # NULL

\* explicit operator bool() const { return error == ResourceError::Success; }
OperatorBool(r) == r.error = Success

\* auto error_message() const { return to_string(error); }
error_message(r) == to_string(r.error)

\* struct ResourceData {data, size}
ResourceData(d, sz) == [data |-> d, size |-> sz]

\* ---------------------------------------------- getResourceSafe, as a whole
\* The value one uninterrupted call returns.
getResourceSafe(s, e) ==
    IF s = NULL THEN ResourceResult(NULL, 0, NullPointer)
    ELSE IF e = NULL THEN ResourceResult(NULL, 0, NullPointer)
    ELSE IF e < s THEN ResourceResult(NULL, 0, InvalidSize)
    ELSE ResourceResult(s, ToSizeT(PtrDiff(e, s)), Success)

\* static_cast<uint32_t>(x)
ToUint32(x) == x % (2 ^ Uint32Bits)

getResourceSizeSafe_narrowing(s, e) ==
    LET r == getResourceSafe(s, e)
    IN  IF r.error = Success /\ r.size # ToUint32(r.size)
        THEN ResourceResult(NULL, 0, IntegerOverflow)
        ELSE r

getResourceSizeSafe(s, e) == getResourceSafe(s, e)

\* ------------------------------------------------------ getResourceExpected
\* std::expected<ResourceData, ResourceError>
Expected(v) == [has_value |-> TRUE, value |-> v]
Unexpected(e) == [has_value |-> FALSE, error |-> e]

getResourceExpected_order_first(s, e) ==
    IF e < s THEN Unexpected(InvalidSize)
    ELSE IF s = NULL \/ e = NULL THEN Unexpected(NullPointer)
    ELSE Expected(ResourceData(s, ToSizeT(PtrDiff(e, s))))

getResourceExpected(s, e) ==
    IF s = NULL \/ e = NULL THEN Unexpected(NullPointer)
    ELSE IF e < s THEN Unexpected(InvalidSize)
    ELSE Expected(ResourceData(s, ToSizeT(PtrDiff(e, s))))

\* ------------------------------------------------------- legacy accessors
getResourceSize_wide(s, e) == ToSizeT(PtrDiff(e, s))

\* return static_cast<uint32_t>(end - start);
getResourceSize(s, e) == ToUint32(PtrDiff(e, s))

getResourceData_aligned(s) == s - (s % 2)

\* return start;
getResourceData(s) == s

\* -------------------------------------------------------- diagnostic hook
\* The addresses of the functions callers install as DiagnosticCallback.
Callbacks == {1, 2}
\* The messages callers log.
Messages == {"m1", "m2"}

\* ------------------------------------------------------------------ state
VARIABLES
    pc,      \* pc[t]: where thread t is: "idle", a line of getResourceSafe, "done"
    op,      \* op[t]: the function thread t called ("" when idle)
    start,   \* start[t]: parameter start of t's call
    end,     \* end[t]: parameter end of t's call
    size,    \* size[t]: the local variable size of getResourceSafe (line 106)
    ret,     \* ret[t]: the ResourceResult returned to t
    exp,     \* exp[t]: the std::expected returned to t
    err,     \* err[t]: parameter err of t's to_string call
    str,     \* str[t]: the string to_string returned to t
    num,     \* num[t]: the uint32_t getResourceSize returned to t
    ptr,     \* ptr[t]: the pointer getResourceData returned to t
    truthy,  \* truthy[t]: the value of static_cast<bool>(result) seen by t
    emsg,    \* emsg[t]: the string result.error_message() returned to t
    g_diagnostic_callback,  \* detail::g_diagnostic_callback, the global slot
    callback,  \* callback[t]: parameter callback of t's setDiagnosticCallback call
    message,   \* message[t]: parameter message of t's diagnostic_log call
    seen,      \* seen[t]: the slot value t loaded for the test of line 225
    called     \* called[t]: the <<function, message>> invocations t's call made

\* What a caller holds besides the results of the safe accessors.
callerVars == <<num, ptr, truthy, emsg>>
\* The diagnostic hook and the calls that use it.
hookVars == <<g_diagnostic_callback, callback, message, seen, called>>

vars == <<pc, op, start, end, size, ret, exp, err, str, callerVars, hookVars>>

Init ==
    /\ pc = [t \in Threads |-> "idle"]
    /\ op = [t \in Threads |-> ""]
    /\ start = [t \in Threads |-> NULL]
    /\ end = [t \in Threads |-> NULL]
    /\ size = [t \in Threads |-> 0]
    /\ ret = [t \in Threads |-> DefaultResult]
    /\ exp = [t \in Threads |-> Unexpected(Success)]
    /\ err = [t \in Threads |-> Success]
    /\ str = [t \in Threads |-> ""]
    /\ num = [t \in Threads |-> 0]
    /\ ptr = [t \in Threads |-> NULL]
    /\ truthy = [t \in Threads |-> FALSE]
    /\ emsg = [t \in Threads |-> ""]
    /\ g_diagnostic_callback = NULL
    /\ callback = [t \in Threads |-> NULL]
    /\ message = [t \in Threads |-> ""]
    /\ seen = [t \in Threads |-> NULL]
    /\ called = [t \in Threads |-> <<>>]

\* ------------------------------------------ getResourceSafe, by statement
\* Thread t calls getResourceSafe(s, e).
CallGetResourceSafe(t, s, e) ==
    /\ pc[t] = "idle"
    /\ pc' = [pc EXCEPT ![t] = "l94"]
    /\ op' = [op EXCEPT ![t] = "getResourceSafe"]
    /\ start' = [start EXCEPT ![t] = s]
    /\ end' = [end EXCEPT ![t] = e]
    /\ UNCHANGED <<size, ret, exp, err, str>>
    /\ UNCHANGED <<callerVars, hookVars>>

\* if (!start) return {nullptr, 0, NullPointer};
CheckStart(t) ==
    /\ pc[t] = "l94"
    /\ IF start[t] = NULL
       THEN /\ ret' = [ret EXCEPT ![t] = ResourceResult(NULL, 0, NullPointer)]
            /\ pc' = [pc EXCEPT ![t] = "done"]
       ELSE /\ pc' = [pc EXCEPT ![t] = "l98"]
            /\ UNCHANGED ret
    /\ UNCHANGED <<op, start, end, size, exp, err, str>>
    /\ UNCHANGED <<callerVars, hookVars>>

CheckEnd_keeps_data(t) ==
    /\ pc[t] = "l98"
    /\ IF end[t] = NULL
       THEN /\ ret' = [ret EXCEPT ![t] = ResourceResult(start[t], 0, NullPointer)]
            /\ pc' = [pc EXCEPT ![t] = "done"]
       ELSE /\ pc' = [pc EXCEPT ![t] = "l102"]
            /\ UNCHANGED ret
    /\ UNCHANGED <<op, start, end, size, exp, err, str>>
    /\ UNCHANGED <<callerVars, hookVars>>

CheckEnd_skipped(t) ==
    /\ pc[t] = "l98"
    /\ pc' = [pc EXCEPT ![t] = "l102"]
    /\ UNCHANGED <<op, start, end, size, ret, exp, err, str>>
    /\ UNCHANGED <<callerVars, hookVars>>

\* if (!end) return {nullptr, 0, NullPointer};
CheckEnd(t) ==
    /\ pc[t] = "l98"
    /\ IF end[t] = NULL
       THEN /\ ret' = [ret EXCEPT ![t] = ResourceResult(NULL, 0, NullPointer)]
            /\ pc' = [pc EXCEPT ![t] = "done"]
       ELSE /\ pc' = [pc EXCEPT ![t] = "l102"]
            /\ UNCHANGED ret
    /\ UNCHANGED <<op, start, end, size, exp, err, str>>
    /\ UNCHANGED <<callerVars, hookVars>>

CheckOrder_skipped(t) ==
    /\ pc[t] = "l102"
    /\ pc' = [pc EXCEPT ![t] = "l106"]
    /\ UNCHANGED <<op, start, end, size, ret, exp, err, str>>
    /\ UNCHANGED <<callerVars, hookVars>>

CheckOrder_le(t) ==
    /\ pc[t] = "l102"
    /\ IF end[t] <= start[t]
       THEN /\ ret' = [ret EXCEPT ![t] = ResourceResult(NULL, 0, InvalidSize)]
            /\ pc' = [pc EXCEPT ![t] = "done"]
       ELSE /\ pc' = [pc EXCEPT ![t] = "l106"]
            /\ UNCHANGED ret
    /\ UNCHANGED <<op, start, end, size, exp, err, str>>
    /\ UNCHANGED <<callerVars, hookVars>>

CheckOrder_keeps_data(t) ==
    /\ pc[t] = "l102"
    /\ IF end[t] < start[t]
       THEN /\ ret' = [ret EXCEPT ![t] = ResourceResult(start[t], 0, InvalidSize)]
            /\ pc' = [pc EXCEPT ![t] = "done"]
       ELSE /\ pc' = [pc EXCEPT ![t] = "l106"]
            /\ UNCHANGED ret
    /\ UNCHANGED <<op, start, end, size, exp, err, str>>
    /\ UNCHANGED <<callerVars, hookVars>>

\* if (end < start) return {nullptr, 0, InvalidSize};
CheckOrder(t) ==
    /\ pc[t] = "l102"
    /\ IF end[t] < start[t]
       THEN /\ ret' = [ret EXCEPT ![t] = ResourceResult(NULL, 0, InvalidSize)]
            /\ pc' = [pc EXCEPT ![t] = "done"]
       ELSE /\ pc' = [pc EXCEPT ![t] = "l106"]
            /\ UNCHANGED ret
    /\ UNCHANGED <<op, start, end, size, exp, err, str>>
    /\ UNCHANGED <<callerVars, hookVars>>

ComputeSize_narrow(t) ==
    /\ pc[t] = "l106"
    /\ size' = [size EXCEPT ![t] = PtrDiff(end[t], start[t]) % (AddrSpace \div 2)]
    /\ pc' = [pc EXCEPT ![t] = "l107"]
    /\ UNCHANGED <<op, start, end, ret, exp, err, str>>
    /\ UNCHANGED <<callerVars, hookVars>>

ComputeSize_static(t) ==
    /\ pc[t] = "l106"
    /\ size' = [u \in Threads |-> ToSizeT(PtrDiff(end[t], start[t]))]
    /\ pc' = [pc EXCEPT ![t] = "l107"]
    /\ UNCHANGED <<op, start, end, ret, exp, err, str>>
    /\ UNCHANGED <<callerVars, hookVars>>

ComputeSize_uint32(t) ==
    /\ pc[t] = "l106"
    /\ size' = [size EXCEPT ![t] = ToUint32(PtrDiff(end[t], start[t]))]
    /\ pc' = [pc EXCEPT ![t] = "l107"]
    /\ UNCHANGED <<op, start, end, ret, exp, err, str>>
    /\ UNCHANGED <<callerVars, hookVars>>

\* size_t size = static_cast<size_t>(end - start);
ComputeSize(t) ==
    /\ pc[t] = "l106"
    /\ size' = [size EXCEPT ![t] = ToSizeT(PtrDiff(end[t], start[t]))]
    /\ pc' = [pc EXCEPT ![t] = "l107"]
    /\ UNCHANGED <<op, start, end, ret, exp, err, str>>
    /\ UNCHANGED <<callerVars, hookVars>>

\* return {start, size, Success};
ReturnSuccess(t) ==
    /\ pc[t] = "l107"
    /\ ret' = [ret EXCEPT ![t] = ResourceResult(start[t], size[t], Success)]
    /\ pc' = [pc EXCEPT ![t] = "done"]
    /\ UNCHANGED <<op, start, end, size, exp, err, str>>
    /\ UNCHANGED <<callerVars, hookVars>>

\* ------------------------------------------------------ single-step calls
\* Thread t calls getResourceSizeSafe(s, e).
CallGetResourceSizeSafe(t, s, e) ==
    /\ pc[t] = "idle"
    /\ pc' = [pc EXCEPT ![t] = "done"]
    /\ op' = [op EXCEPT ![t] = "getResourceSizeSafe"]
    /\ start' = [start EXCEPT ![t] = s]
    /\ end' = [end EXCEPT ![t] = e]
    /\ ret' = [ret EXCEPT ![t] = getResourceSizeSafe(s, e)]
    /\ UNCHANGED <<size, exp, err, str>>
    /\ UNCHANGED <<callerVars, hookVars>>

\* Thread t calls getResourceExpected(s, e).
CallGetResourceExpected(t, s, e) ==
    /\ pc[t] = "idle"
    /\ pc' = [pc EXCEPT ![t] = "done"]
    /\ op' = [op EXCEPT ![t] = "getResourceExpected"]
    /\ start' = [start EXCEPT ![t] = s]
    /\ end' = [end EXCEPT ![t] = e]
    /\ exp' = [exp EXCEPT ![t] = getResourceExpected(s, e)]
    /\ UNCHANGED <<size, ret, err, str>>
    /\ UNCHANGED <<callerVars, hookVars>>

\* Thread t calls to_string(static_cast<ResourceError>(v)).
CallToString(t, v) ==
    /\ pc[t] = "idle"
    /\ pc' = [pc EXCEPT ![t] = "done"]
    /\ op' = [op EXCEPT ![t] = "to_string"]
    /\ err' = [err EXCEPT ![t] = v]
    /\ str' = [str EXCEPT ![t] = to_string(v)]
    /\ UNCHANGED <<start, end, size, ret, exp>>
    /\ UNCHANGED <<callerVars, hookVars>>

RunGetResourceSafe_logging(t, s, e) ==
    /\ pc[t] = "idle"
    /\ pc' = [pc EXCEPT ![t] = "done"]
    /\ op' = [op EXCEPT ![t] = "getResourceSafe"]
    /\ start' = [start EXCEPT ![t] = s]
    /\ end' = [end EXCEPT ![t] = e]
    /\ ret' = [ret EXCEPT ![t] = getResourceSafe(s, e)]
    /\ called' = [called EXCEPT ![t] =
                     IF getResourceSafe(s, e).error # Success /\ g_diagnostic_callback # NULL
                     THEN << <<g_diagnostic_callback, "m1">> >>
                     ELSE <<>>]
    /\ UNCHANGED <<size, exp, err, str>>
    /\ UNCHANGED <<callerVars, g_diagnostic_callback, callback, message, seen>>

\* Thread t runs getResourceSafe(s, e) to its return in one step.
RunGetResourceSafe(t, s, e) ==
    /\ pc[t] = "idle"
    /\ pc' = [pc EXCEPT ![t] = "done"]
    /\ op' = [op EXCEPT ![t] = "getResourceSafe"]
    /\ start' = [start EXCEPT ![t] = s]
    /\ end' = [end EXCEPT ![t] = e]
    /\ ret' = [ret EXCEPT ![t] = getResourceSafe(s, e)]
    /\ UNCHANGED <<size, exp, err, str>>
    /\ UNCHANGED <<callerVars, hookVars>>

\* Thread t calls the legacy getResourceSize(s, e).
CallGetResourceSize(t, s, e) ==
    /\ pc[t] = "idle"
    /\ pc' = [pc EXCEPT ![t] = "done"]
    /\ op' = [op EXCEPT ![t] = "getResourceSize"]
    /\ start' = [start EXCEPT ![t] = s]
    /\ end' = [end EXCEPT ![t] = e]
    /\ num' = [num EXCEPT ![t] = getResourceSize(s, e)]
    /\ UNCHANGED <<size, ret, exp, err, str, ptr, truthy, emsg>>
    /\ UNCHANGED hookVars

\* Thread t calls the legacy getResourceData(s).
CallGetResourceData(t, s) ==
    /\ pc[t] = "idle"
    /\ pc' = [pc EXCEPT ![t] = "done"]
    /\ op' = [op EXCEPT ![t] = "getResourceData"]
    /\ start' = [start EXCEPT ![t] = s]
    /\ ptr' = [ptr EXCEPT ![t] = getResourceData(s)]
    /\ UNCHANGED <<end, size, ret, exp, err, str, num, truthy, emsg>>
    /\ UNCHANGED hookVars

\* ------------------------------------------------- diagnostic hook, calls
SetDiagnosticCallback_keep_first(t, cb) ==
    /\ pc[t] = "idle"
    /\ pc' = [pc EXCEPT ![t] = "done"]
    /\ op' = [op EXCEPT ![t] = "setDiagnosticCallback"]
    /\ callback' = [callback EXCEPT ![t] = cb]
    /\ g_diagnostic_callback' =
           IF g_diagnostic_callback = NULL THEN cb ELSE g_diagnostic_callback
    /\ UNCHANGED <<start, end, size, ret, exp, err, str>>
    /\ UNCHANGED <<callerVars, message, seen, called>>

SetDiagnosticCallback_ignore_null(t, cb) ==
    /\ pc[t] = "idle"
    /\ pc' = [pc EXCEPT ![t] = "done"]
    /\ op' = [op EXCEPT ![t] = "setDiagnosticCallback"]
    /\ callback' = [callback EXCEPT ![t] = cb]
    /\ g_diagnostic_callback' = IF cb = NULL THEN g_diagnostic_callback ELSE cb
    /\ UNCHANGED <<start, end, size, ret, exp, err, str>>
    /\ UNCHANGED <<callerVars, message, seen, called>>

\* Thread t calls setDiagnosticCallback(cb):
\* detail::g_diagnostic_callback = callback;
SetDiagnosticCallback(t, cb) ==
    /\ pc[t] = "idle"
    /\ pc' = [pc EXCEPT ![t] = "done"]
    /\ op' = [op EXCEPT ![t] = "setDiagnosticCallback"]
    /\ callback' = [callback EXCEPT ![t] = cb]
    /\ g_diagnostic_callback' = cb
    /\ UNCHANGED <<start, end, size, ret, exp, err, str>>
    /\ UNCHANGED <<callerVars, message, seen, called>>

\* Thread t calls detail::diagnostic_log(m).
CallDiagnosticLog(t, m) ==
    /\ pc[t] = "idle"
    /\ pc' = [pc EXCEPT ![t] = "l225"]
    /\ op' = [op EXCEPT ![t] = "diagnostic_log"]
    /\ message' = [message EXCEPT ![t] = m]
    /\ UNCHANGED <<start, end, size, ret, exp, err, str>>
    /\ UNCHANGED <<callerVars, g_diagnostic_callback, callback, seen, called>>

\* if (g_diagnostic_callback) : load the slot and test it.
TestCallback(t) ==
    /\ pc[t] = "l225"
    /\ seen' = [seen EXCEPT ![t] = g_diagnostic_callback]
    /\ pc' = [pc EXCEPT ![t] = IF g_diagnostic_callback = NULL THEN "done" ELSE "l226"]
    /\ UNCHANGED <<op, start, end, size, ret, exp, err, str>>
    /\ UNCHANGED <<callerVars, g_diagnostic_callback, callback, message, called>>

InvokeCallback_twice(t) ==
    /\ pc[t] = "l226"
    /\ \E fn \in {seen[t], g_diagnostic_callback} :
           called' = [called EXCEPT ![t] =
                         called[t] \o << <<fn, message[t]>>, <<fn, message[t]>> >>]
    /\ seen' = [seen EXCEPT ![t] = NULL]
    /\ pc' = [pc EXCEPT ![t] = "done"]
    /\ UNCHANGED <<op, start, end, size, ret, exp, err, str>>
    /\ UNCHANGED <<callerVars, g_diagnostic_callback, callback, message>>

\* g_diagnostic_callback(message);  The slot is a plain (non-atomic) global
\* read without synchronization: the build either loads it a second time or
\* reuses the value loaded for the test.  The call through the function
\* pointer is recorded whatever the pointer is.
InvokeCallback(t) ==
    /\ pc[t] = "l226"
    /\ \E fn \in {seen[t], g_diagnostic_callback} :
           called' = [called EXCEPT ![t] = Append(called[t], <<fn, message[t]>>)]
    /\ seen' = [seen EXCEPT ![t] = NULL]
    /\ pc' = [pc EXCEPT ![t] = "done"]
    /\ UNCHANGED <<op, start, end, size, ret, exp, err, str>>
    /\ UNCHANGED <<callerVars, g_diagnostic_callback, callback, message>>

\* ------------------------------------------------ use of a ResourceResult
\* Thread t default-constructs a ResourceResult: ResourceResult r{};
DefaultConstruct(t) ==
    /\ pc[t] = "idle"
    /\ pc' = [pc EXCEPT ![t] = "done"]
    /\ op' = [op EXCEPT ![t] = "ResourceResult"]
    /\ ret' = [ret EXCEPT ![t] = DefaultResult]
    /\ UNCHANGED <<start, end, size, exp, err, str>>
    /\ UNCHANGED <<callerVars, hookVars>>

\* The functions that hand a ResourceResult to their caller.
ResultOps == {"getResourceSafe", "getResourceSizeSafe", "ResourceResult"}

\* Thread t converts the ResourceResult it holds to bool and asks for its
\* error_message().
InspectResult(t) ==
    /\ pc[t] = "done"
    /\ op[t] \in ResultOps
    /\ pc' = [pc EXCEPT ![t] = "inspected"]
    /\ truthy' = [truthy EXCEPT ![t] = OperatorBool(ret[t])]
    /\ emsg' = [emsg EXCEPT ![t] = error_message(ret[t])]
    /\ UNCHANGED <<op, start, end, size, ret, exp, err, str, num, ptr>>
    /\ UNCHANGED hookVars

\* The caller of thread t drops the returned value and is ready to call again.
Finish(t) ==
    /\ pc[t] \in {"done", "inspected"}
    /\ pc' = [pc EXCEPT ![t] = "idle"]
    /\ op' = [op EXCEPT ![t] = ""]
    /\ start' = [start EXCEPT ![t] = NULL]
    /\ end' = [end EXCEPT ![t] = NULL]
    /\ size' = [size EXCEPT ![t] = 0]
    /\ ret' = [ret EXCEPT ![t] = DefaultResult]
    /\ exp' = [exp EXCEPT ![t] = Unexpected(Success)]
    /\ err' = [err EXCEPT ![t] = Success]
    /\ str' = [str EXCEPT ![t] = ""]
    /\ num' = [num EXCEPT ![t] = 0]
    /\ ptr' = [ptr EXCEPT ![t] = NULL]
    /\ truthy' = [truthy EXCEPT ![t] = FALSE]
    /\ emsg' = [emsg EXCEPT ![t] = ""]
    /\ callback' = [callback EXCEPT ![t] = NULL]
    /\ message' = [message EXCEPT ![t] = ""]
    /\ seen' = [seen EXCEPT ![t] = NULL]
    /\ called' = [called EXCEPT ![t] = <<>>]
    /\ UNCHANGED g_diagnostic_callback

Next ==
    \/ \E t \in Threads, s \in Addrs, e \in Addrs : CallGetResourceSafe(t, s, e)
    \/ \E t \in Threads : CheckStart(t)
    \/ \E t \in Threads : CheckEnd(t)
    \/ \E t \in Threads : CheckOrder(t)
    \/ \E t \in Threads : ComputeSize(t)
    \/ \E t \in Threads : ReturnSuccess(t)
    \/ \E t \in Threads, s \in Addrs, e \in Addrs : CallGetResourceSizeSafe(t, s, e)
    \/ \E t \in Threads, s \in Addrs, e \in Addrs : CallGetResourceExpected(t, s, e)
    \/ \E t \in Threads, v \in ErrValues : CallToString(t, v)
    \/ \E t \in Threads : DefaultConstruct(t)
    \/ \E t \in Threads : InspectResult(t)
    \/ \E t \in Threads : Finish(t)

Spec == Init /\ [][Next]_vars

\* Callers that use the diagnostic hook, the legacy accessors and the safe
\* accessors (each accessor call taken as one step).
NextDiag ==
    \/ \E t \in Threads, cb \in Callbacks \cup {NULL} : SetDiagnosticCallback(t, cb)
    \/ \E t \in Threads, m \in Messages : CallDiagnosticLog(t, m)
    \/ \E t \in Threads : TestCallback(t)
    \/ \E t \in Threads : InvokeCallback(t)
    \/ \E t \in Threads, s \in Addrs, e \in Addrs : RunGetResourceSafe(t, s, e)
    \/ \E t \in Threads, s \in Addrs, e \in Addrs : CallGetResourceSizeSafe(t, s, e)
    \/ \E t \in Threads, s \in Addrs, e \in Addrs : CallGetResourceExpected(t, s, e)
    \/ \E t \in Threads, s \in Addrs, e \in Addrs : CallGetResourceSize(t, s, e)
    \/ \E t \in Threads, s \in Addrs : CallGetResourceData(t, s)
    \/ \E t \in Threads : Finish(t)

SpecDiag == Init /\ [][NextDiag]_vars

\* A getResourceSafe call of thread t has returned.
SafeDone(t) == pc[t] = "done" /\ op[t] = "getResourceSafe"

\* A getResourceExpected call of thread t has returned.
ExpectedDone(t) == pc[t] = "done" /\ op[t] = "getResourceExpected"

\* A to_string call of thread t has returned.
ToStringDone(t) == pc[t] = "done" /\ op[t] = "to_string"

\* ----------------------------------------------------------------- claims

\* C1: for non-null start and end with end >= start, getResourceSafe returns
\* error == Success, size == end - start and data == start.
C1_ValidRangeSucceeds ==
    \A t \in Threads :
        (SafeDone(t) /\ start[t] # NULL /\ end[t] # NULL /\ end[t] >= start[t])
        => /\ ret[t].error = Success
           /\ ret[t].size = end[t] - start[t]
           /\ ret[t].data = start[t]

\* A call with a non-empty valid range whose length exceeds PTRDIFF_MAX has returned.
C1_Witness ==
    \E t \in Threads :
        /\ SafeDone(t) /\ start[t] # NULL
        /\ end[t] - start[t] >= AddrSpace \div 2

\* C2: when start is null, end is null, or both are, getResourceSafe returns
\* error NullPointer with data == null and size == 0, whichever was null.
C2_NullArgumentFails ==
    \A t \in Threads :
        (SafeDone(t) /\ (start[t] = NULL \/ end[t] = NULL))
        => ret[t] = ResourceResult(NULL, 0, NullPointer)

\* Two returned calls, one with only start null, one with only end null.
C2_Witness ==
    \E t, u \in Threads :
        /\ SafeDone(t) /\ start[t] = NULL /\ end[t] # NULL
        /\ SafeDone(u) /\ start[u] # NULL /\ end[u] = NULL

\* C3: for non-null start and end with end < start, getResourceSafe returns
\* error InvalidSize with data == null and size == 0.
C3_InvertedRangeFails ==
    \A t \in Threads :
        (SafeDone(t) /\ start[t] # NULL /\ end[t] # NULL /\ end[t] < start[t])
        => ret[t] = ResourceResult(NULL, 0, InvalidSize)

\* A call with a non-null inverted pair has returned.
C3_Witness ==
    \E t \in Threads :
        SafeDone(t) /\ end[t] # NULL /\ end[t] < start[t]

\* C4 as stated: for ALL inputs with start == end (the null pair included),
\* getResourceSafe succeeds with size == 0 and a non-null data address.
C4_Original ==
    \A t \in Threads :
        (SafeDone(t) /\ start[t] = end[t])
        => /\ ret[t].error = Success
           /\ ret[t].size = 0
           /\ ret[t].data # NULL

\* C4 (amended): for all inputs where start == end and the address is not
\* null, getResourceSafe succeeds with size == 0 and a non-null data address.
C4_EmptyRangeSucceeds ==
    \A t \in Threads :
        (SafeDone(t) /\ start[t] = end[t] /\ start[t] # NULL)
        => /\ ret[t].error = Success
           /\ ret[t].size = 0
           /\ ret[t].data # NULL

\* A call with two identical non-null addresses has returned.
C4_Witness ==
    \E t \in Threads :
        SafeDone(t) /\ start[t] = end[t] /\ start[t] # NULL

\* C5: every result of getResourceSafe has error == Success iff data is
\* non-null, and then size == end - start with end >= start; every other
\* result has data == null and size == 0.
C5_ResultInvariant ==
    \A t \in Threads :
        SafeDone(t)
        => /\ (ret[t].error = Success) <=> (ret[t].data # NULL)
           /\ (ret[t].error = Success)
              => (end[t] >= start[t] /\ ret[t].size = end[t] - start[t])
           /\ (ret[t].error # Success)
              => (ret[t].data = NULL /\ ret[t].size = 0)

\* One call has returned a success and another a failure for an inverted pair.
C5_Witness ==
    \E t, u \in Threads :
        /\ SafeDone(t) /\ ret[t].error = Success /\ ret[t].size > 0
        /\ SafeDone(u) /\ ret[u].error = InvalidSize

\* The outcome x of getResourceExpected agrees with the outcome r of getResourceSafe.
Agree(x, r) ==
    /\ x.has_value <=> (r.error = Success)
    /\ x.has_value => (x.value.data = r.data /\ x.value.size = r.size)
    /\ (~x.has_value) => (x.error = r.error)

\* C6: for every pair (start, end), getResourceExpected holds a value exactly
\* when getResourceSafe reports Success, with the same data and size, and
\* otherwise holds the error kind getResourceSafe reports.
C6_ExpectedAgreesWithSafe ==
    \A t \in Threads :
        ExpectedDone(t)
        => /\ Agree(exp[t], getResourceSafe(start[t], end[t]))
           /\ \A u \in Threads :
                  (SafeDone(u) /\ start[u] = start[t] /\ end[u] = end[t])
                  => Agree(exp[t], ret[u])

\* Both accessors have returned for the same pair (non-null start, null end).
C6_Witness ==
    \E t, u \in Threads :
        /\ ExpectedDone(t) /\ SafeDone(u)
        /\ start[u] = start[t] /\ end[u] = end[t]
        /\ start[t] # NULL /\ end[t] = NULL

\* C7: the rules are applied in order, first match wins: null start, then
\* null end, then inverted order.  The order check is reached only with both
\* addresses non-null, so a non-null start with a null end (numerically
\* below start) yields NullPointer, never InvalidSize.
C7_FirstMatchingRuleWins ==
    \A t \in Threads :
        /\ (op[t] = "getResourceSafe" /\ pc[t] = "l98") => start[t] # NULL
        /\ (op[t] = "getResourceSafe" /\ pc[t] = "l102")
           => (start[t] # NULL /\ end[t] # NULL)
        /\ (SafeDone(t) /\ start[t] = NULL) => ret[t].error = NullPointer
        /\ (SafeDone(t) /\ start[t] # NULL /\ end[t] = NULL)
           => ret[t].error = NullPointer
        /\ (SafeDone(t) /\ start[t] # NULL /\ end[t] # NULL /\ end[t] < start[t])
           => ret[t].error = InvalidSize

\* A call with a non-null start and a null end (end < start) has returned.
C7_Witness ==
    \E t \in Threads :
        SafeDone(t) /\ start[t] # NULL /\ end[t] = NULL /\ end[t] < start[t]

\* C8: to_string returns a string for each of the five kinds, none of them
\* empty, and different kinds get different strings.
C8_ToStringDistinct ==
    /\ \A t \in Threads :
           pc[t] = "idle" => \A k \in NamedKinds : ENABLED CallToString(t, k)
    /\ \A t \in Threads :
           (ToStringDone(t) /\ err[t] \in NamedKinds)
           => /\ str[t] # ""
              /\ \A u \in Threads :
                     (ToStringDone(u) /\ err[u] \in NamedKinds /\ err[u] # err[t])
                     => str[u] # str[t]

\* to_string has returned for IntegerOverflow and for NotFound.
C8_Witness ==
    \E t, u \in Threads :
        /\ ToStringDone(t) /\ err[t] = IntegerOverflow
        /\ ToStringDone(u) /\ err[u] = NotFound

\* C9: for a ResourceError value outside the five named kinds to_string
\* returns "Unknown error", which is none of the five kinds' strings.
C9_UnknownKindString ==
    \A t \in Threads :
        (ToStringDone(t) /\ err[t] \notin NamedKinds)
        => /\ str[t] = "Unknown error"
           /\ \A u \in Threads :
                  (ToStringDone(u) /\ err[u] \in NamedKinds) => str[u] # str[t]

\* to_string has returned for a value outside the enumerators and for NotFound.
C9_Witness ==
    \E t, u \in Threads :
        /\ ToStringDone(t) /\ err[t] \notin NamedKinds
        /\ ToStringDone(u) /\ err[u] = NotFound

\* C10: whatever the interleaving with the calls of other threads, a
\* getResourceSafe call returns what one uninterrupted call with the same
\* arguments returns; calls with the same non-null ordered pair all return
\* the identical success result.
C10_ConcurrentCallsAgree ==
    \A t \in Threads :
        SafeDone(t)
        => /\ ret[t] = getResourceSafe(start[t], end[t])
           /\ \A u \in Threads :
                  ( /\ SafeDone(u) /\ start[u] = start[t] /\ end[u] = end[t]
                    /\ start[t] # NULL /\ end[t] >= start[t] )
                  => (ret[u] = ret[t] /\ ret[t].error = Success)

\* Two threads have each returned from a call with the same non-null ordered
\* pair while a call with a different pair has also completed concurrently.
C10_Witness ==
    \E t, u \in Threads :
        /\ t # u /\ SafeDone(t) /\ SafeDone(u)
        /\ start[u] = start[t] /\ end[u] = end[t]
        /\ start[t] # NULL /\ end[t] > start[t]

\* A setDiagnosticCallback call of thread t has returned.
SetDone(t) == pc[t] = "done" /\ op[t] = "setDiagnosticCallback"

\* A detail::diagnostic_log call of thread t has returned.
DiagLogDone(t) == pc[t] = "done" /\ op[t] = "diagnostic_log"

\* This step is thread t's call of setDiagnosticCallback.
SetStep(t) == pc[t] = "idle" /\ op'[t] = "setDiagnosticCallback"

\* This step is thread t's test of the slot (line 225).
TestStep(t) == pc[t] = "l225" /\ pc'[t] # "l225"

\* This step is thread t's call through the slot (line 226).
InvokeStep(t) == pc[t] = "l226" /\ pc'[t] # "l226"

\* C11: when detail::diagnostic_log runs concurrently with
\* setDiagnosticCallback (clearing included), every function it calls is a
\* callback that was installed; it never calls through an absent (null) value.
C11_NeverInvokesAbsentCallback ==
    \A t \in Threads :
        \A i \in 1 .. Len(called[t]) : called[t][i][1] \in Callbacks

\* C12: the slot holds zero or one callback: it is empty at process start and
\* every setDiagnosticCallback call leaves exactly its argument in it (nullptr
\* leaves it empty); nothing else changes it.
C12_Step ==
    /\ g_diagnostic_callback' \in Callbacks \cup {NULL}
    /\ \A t \in Threads :
           SetStep(t) => g_diagnostic_callback' = callback'[t]
    /\ (\A t \in Threads : ~SetStep(t))
       => g_diagnostic_callback' = g_diagnostic_callback

C12_SlotHoldsLatestCallback ==
    (g_diagnostic_callback = NULL) /\ [][C12_Step]_vars

\* Two calls with different callbacks have returned; the slot holds one of them.
C12_Witness ==
    \E t, u \in Threads :
        /\ SetDone(t) /\ SetDone(u)
        /\ callback[t] = 1 /\ callback[u] = 2
        /\ g_diagnostic_callback = 2

\* C13: without a write of another thread in between, diagnostic_log(message)
\* calls the installed callback exactly once with that message when one is
\* installed, calls nothing when the slot is empty, and leaves the slot as is.
C13_Step ==
    \A t \in Threads :
        /\ TestStep(t)
           => /\ g_diagnostic_callback' = g_diagnostic_callback
              /\ called'[t] = <<>>
              /\ (g_diagnostic_callback = NULL) <=> (pc'[t] = "done")
              /\ (g_diagnostic_callback # NULL) <=> (pc'[t] = "l226")
        /\ (InvokeStep(t) /\ g_diagnostic_callback = seen[t])
           => /\ g_diagnostic_callback' = g_diagnostic_callback
              /\ pc'[t] = "done"
              /\ called'[t] = << <<g_diagnostic_callback, message[t]>> >>

C13_LogInvokesInstalledOnce == [][C13_Step]_vars

\* One diagnostic_log call has returned having called the installed callback,
\* another has returned having found the slot empty.
C13_Witness ==
    \E t, u \in Threads :
        /\ DiagLogDone(t) /\ g_diagnostic_callback # NULL
        /\ called[t] = << <<g_diagnostic_callback, message[t]>> >>
        /\ DiagLogDone(u) /\ called[u] = <<>>

\* C14: setDiagnosticCallback(nullptr) leaves the slot empty; on an already
\* empty slot it changes nothing of the hook, so clearing twice equals
\* clearing once; a diagnostic_log that finds the slot cleared calls nothing.
C14_Step ==
    \A t \in Threads :
        /\ (SetStep(t) /\ callback'[t] = NULL)
           => /\ g_diagnostic_callback' = NULL
              /\ (g_diagnostic_callback = NULL)
                 => (g_diagnostic_callback' = g_diagnostic_callback
                     /\ called' = called /\ seen' = seen)
        /\ (TestStep(t) /\ g_diagnostic_callback = NULL)
           => (pc'[t] = "done" /\ called'[t] = <<>>)

C14_ClearIsIdempotent == [][C14_Step]_vars

\* Two clearing calls have returned and a later diagnostic_log found the
\* slot empty.
C14_Witness ==
    \E t, u \in Threads :
        /\ t # u /\ SetDone(t) /\ callback[t] = NULL
        /\ g_diagnostic_callback = NULL
        /\ DiagLogDone(u) /\ called[u] = <<>>

\* The accessors of the validation layer and the legacy accessors.
AccessorOps ==
    {"getResourceSafe", "getResourceSizeSafe", "getResourceExpected",
     "getResourceSize", "getResourceData"}

\* The values a returned accessor call of thread t handed back.
Returned(t) == <<ret[t], exp[t], num[t], ptr[t]>>

\* C15: a call of getResourceSafe, getResourceSizeSafe, getResourceExpected,
\* getResourceSize or getResourceData, on success or failure, calls no
\* diagnostic callback, leaves the slot unchanged, and returns the same
\* result whatever callback is installed.
C15_Step ==
    /\ \A t \in Threads :
           (pc[t] = "idle" /\ op'[t] \in AccessorOps)
           => /\ g_diagnostic_callback' = g_diagnostic_callback
              /\ called' = called
              /\ seen' = seen
    /\ \A t, u \in Threads :
           ( /\ pc'[t] = "done" /\ pc'[u] = "done"
             /\ op'[t] \in AccessorOps /\ op'[u] = op'[t]
             /\ start'[u] = start'[t] /\ end'[u] = end'[t] )
           => Returned(u)' = Returned(t)'

SizeDone(t) == pc[t] = "done" /\ op[t] = "getResourceSize"

\* A legacy getResourceData call of thread t has returned.
DataDone(t) == pc[t] = "done" /\ op[t] = "getResourceData"

\* A getResourceSizeSafe call of thread t has returned.
SizeSafeDone(t) == pc[t] = "done" /\ op[t] = "getResourceSizeSafe"

\* C16: the legacy getResourceSize validates nothing and returns end - start
\* reduced to the width of uint32_t: for start <= end the result is
\* (end - start) mod 2^32, equal to the length exactly when the length is
\* below 2^32.
C16_LegacySizeTruncates ==
    \A t \in Threads :
        (SizeDone(t) /\ start[t] <= end[t])
        => /\ num[t] = (end[t] - start[t]) % (2 ^ Uint32Bits)
           /\ (num[t] = end[t] - start[t]) <=> (end[t] - start[t] < 2 ^ Uint32Bits)

\* One call has returned a truncated length, another an exact non-zero one.
C16_Witness ==
    \E t, u \in Threads :
        /\ SizeDone(t) /\ start[t] # NULL /\ start[t] <= end[t]
        /\ num[t] # end[t] - start[t]
        /\ SizeDone(u) /\ num[u] = end[u] - start[u] /\ num[u] > 0

\* C17: the legacy getResourceData returns exactly its argument for every
\* address, null included.
C17_LegacyDataIsIdentity ==
    \A t \in Threads : DataDone(t) => ptr[t] = start[t]

\* The call has returned for a null and for a non-null (odd) address.
C17_Witness ==
    \E t, u \in Threads :
        /\ DataDone(t) /\ start[t] = NULL
        /\ DataDone(u) /\ start[u] = 1 + FiveMiB

\* C18: the size getResourceSafe returns is the full end - start at address
\* width: a valid range whose length is 2^32 or more yields that length and
\* not its value mod 2^32, and a 5 MiB range yields exactly 5,242,880.
C18_SafeSizeNotTruncated ==
    \A t \in Threads :
        (SafeDone(t) /\ ret[t].error = Success)
        => /\ ret[t].size = end[t] - start[t]
           /\ (end[t] - start[t] >= 2 ^ Uint32Bits)
              => ret[t].size # (end[t] - start[t]) % (2 ^ Uint32Bits)
           /\ (end[t] - start[t] = 5 * 1024 * 1024) => ret[t].size = 5242880

\* The call has returned for a 5 MiB range and for a range of almost the
\* whole address space.
C18_Witness ==
    \E t, u \in Threads :
        /\ SafeDone(t) /\ start[t] # NULL /\ end[t] - start[t] = 5 * 1024 * 1024
        /\ SafeDone(u) /\ start[u] # NULL /\ end[u] = AddrSpace - 1
        /\ ret[u].size >= 2 ^ Uint32Bits

\* C19: getResourceSafe, getResourceSizeSafe and getResourceExpected return
\* an error kind in {Success, NullPointer, InvalidSize}; a failure carries
\* NullPointer or InvalidSize, never IntegerOverflow or NotFound.
C19_OnlyValidationKinds ==
    \A t \in Threads :
        /\ (SafeDone(t) \/ SizeSafeDone(t))
           => /\ ret[t].error \in {Success, NullPointer, InvalidSize}
              /\ ret[t].data = NULL => ret[t].error \in {NullPointer, InvalidSize}
        /\ (ExpectedDone(t) /\ ~exp[t].has_value)
           => exp[t].error \in {NullPointer, InvalidSize}

\* getResourceSizeSafe has returned for a range longer than uint32_t holds
\* and getResourceExpected has returned a failure.
C19_Witness ==
    \E t, u \in Threads :
        /\ SizeSafeDone(t) /\ start[t] # NULL
        /\ end[t] - start[t] >= 2 ^ Uint32Bits
        /\ ExpectedDone(u) /\ ~exp[u].has_value

\* Thread t has converted its ResourceResult to bool and read error_message().
Inspected(t) == pc[t] = "inspected"

\* C20: a ResourceResult converts to true iff error == Success and its
\* error_message() is to_string(error); a result of getResourceSafe is truthy
\* exactly when validation succeeded, and a default-constructed result is
\* truthy although its data is null.
C20_BoolIffSuccess ==
    \A t \in Threads :
        Inspected(t)
        => /\ truthy[t] <=> (ret[t].error = Success)
           /\ \A u \in Threads :
                  (ToStringDone(u) /\ err[u] = ret[t].error) => emsg[t] = str[u]
           /\ (op[t] \in {"getResourceSafe", "getResourceSizeSafe"})
              => (truthy[t] <=>
                    (start[t] # NULL /\ end[t] # NULL /\ end[t] >= start[t]))
           /\ (op[t] = "ResourceResult")
              => (truthy[t] /\ ret[t].data = NULL /\ ret[t].size = 0)

\* A default-constructed result has been inspected while to_string(Success)
\* has returned in another thread.
C20_Witness ==
    \E t, u \in Threads :
        /\ Inspected(t) /\ op[t] = "ResourceResult"
        /\ ToStringDone(u) /\ err[u] = Success

====
